---- MODULE Spec2Model ----
(***************************************************************************)
(* Frank-Wolfe benchmark engine (agurwicz/frank-wolfe).                    *)
(*                                                                         *)
(* A Lasso problem instance  min ||Ax-b||_2^2  s.t.  ||x||_1 <= alpha  and *)
(* the five solvers of GeneralProblem, each run through the                *)
(* optimization_algorithm wrapper.                                         *)
(*                                                                         *)
(* Numbers: the program computes in floating point; the model computes in  *)
(* exact rational arithmetic (a rational is a pair <<n, d>>, d > 0, in     *)
(* lowest terms; <<1, 0>> is the quotient numpy returns for 1/0.0).  A     *)
(* square root is taken only of perfect squares, so problem data is drawn  *)
(* from instances whose norms are rational.  Vectors have two components   *)
(* (number_of_features = 2).  time() is a logical clock: the k-th call     *)
(* returns k.                                                              *)
(***************************************************************************)
EXTENDS Integers, Sequences, FiniteSets, TLC

\* ------------------------------------------------------------------------
\* Bounds of the model
\* ------------------------------------------------------------------------
MaxIter == 1        \* max_iterations ranges over 0..MaxIter
MaxRuns == 2        \* algorithm invocations on one Problem instance
MaxDoublings == 4   \* cap_m *= tau steps followed in one __step_size call

\* ------------------------------------------------------------------------
\* Exact rational arithmetic
\* ------------------------------------------------------------------------
\* Python evaluates the arguments of a call once, before the call.  An
\* operator that reads a parameter more than once takes it by value: Op binds
\* the values of its arguments and hands them to Op_of, which computes.
Value(S) == CHOOSE value \in S : TRUE

Abs(n) == IF n < 0 THEN -n ELSE n

RECURSIVE GCD(_, _)
GCD_of(m, n) == IF n = 0 THEN m ELSE GCD(n, m % n)
GCD(m, n) == Value({ GCD_of(args[1], args[2]) : args \in { << m, n >> } })

Rat(n, d) ==
    LET g == GCD(Abs(n), Abs(d))
        sg == IF d < 0 THEN -1 ELSE 1
    IN  << sg * (n \div g), sg * (d \div g) >>

Zero == << 0, 1 >>
One == << 1, 1 >>
Two == << 2, 1 >>
Inf == << 1, 0 >>

RNeg_of(a) == << -a[1], a[2] >>
RNeg(a) == Value({ RNeg_of(arg) : arg \in { a } })

RAdd_of(a, c) ==
    LET g == GCD(a[2], c[2])
        n == a[1] * (c[2] \div g) + c[1] * (a[2] \div g)
        h == GCD(Abs(n), g)
    IN  IF n = 0 THEN Zero
        ELSE << n \div h, (a[2] \div g) * (c[2] \div h) >>
RAdd(a, c) == Value({ RAdd_of(args[1], args[2]) : args \in { << a, c >> } })

RSub(a, c) == RAdd(a, RNeg(c))

RMul_of(a, c) ==
    IF a[1] = 0 \/ c[1] = 0 THEN Zero
    ELSE LET g1 == GCD(Abs(a[1]), c[2])
             g2 == GCD(Abs(c[1]), a[2])
         IN  << (a[1] \div g1) * (c[1] \div g2), (a[2] \div g2) * (c[2] \div g1) >>
RMul(a, c) == Value({ RMul_of(args[1], args[2]) : args \in { << a, c >> } })

\* numpy float64 division: x/0.0 is inf (a warning, no exception)
RInv_of(a) ==
    IF a[1] = 0 THEN Inf
    ELSE IF a[1] < 0 THEN << -a[2], -a[1] >> ELSE << a[2], a[1] >>
RInv(a) == Value({ RInv_of(arg) : arg \in { a } })

RDiv(a, c) == RMul(a, RInv(c))

RSign_of(a) == IF a[1] > 0 THEN 1 ELSE IF a[1] < 0 THEN -1 ELSE 0
RSign(a) == Value({ RSign_of(arg) : arg \in { a } })

\* comparison of n1/d1 and n2/d2 (all non-negative, d1, d2 > 0) by their
\* continued fractions: -1, 0 or 1
RECURSIVE CmpPos(_, _, _, _)
CmpPos_of(n1, d1, n2, d2) ==
    LET q1 == n1 \div d1
        q2 == n2 \div d2
        r1 == n1 % d1
        r2 == n2 % d2
    IN  IF q1 < q2 THEN -1
        ELSE IF q1 > q2 THEN 1
        ELSE IF r1 = 0 /\ r2 = 0 THEN 0
        ELSE IF r1 = 0 THEN -1
        ELSE IF r2 = 0 THEN 1
        ELSE CmpPos(d2, r2, d1, r1)
CmpPos(n1, d1, n2, d2) ==
    Value({ CmpPos_of(args[1], args[2], args[3], args[4]) : args \in { << n1, d1, n2, d2 >> } })

RCmp_of(a, c) ==
    IF RSign(a) # RSign(c) THEN (IF RSign(a) < RSign(c) THEN -1 ELSE 1)
    ELSE IF RSign(a) = 0 THEN 0
    ELSE IF RSign(a) > 0 THEN CmpPos(a[1], a[2], c[1], c[2])
    ELSE CmpPos(-c[1], c[2], -a[1], a[2])
RCmp(a, c) == Value({ RCmp_of(args[1], args[2]) : args \in { << a, c >> } })

RLt(a, c) == RCmp(a, c) < 0
RLe(a, c) == RCmp(a, c) <= 0
RGe(a, c) == RLe(c, a)
RGt(a, c) == RLt(c, a)

RAbs_of(a) == << Abs(a[1]), a[2] >>
RAbs(a) == Value({ RAbs_of(arg) : arg \in { a } })

RMin_of(a, c) == IF RLe(a, c) THEN a ELSE c
RMin(a, c) == Value({ RMin_of(args[1], args[2]) : args \in { << a, c >> } })

RMax_of(a, c) == IF RGe(a, c) THEN a ELSE c
RMax(a, c) == Value({ RMax_of(args[1], args[2]) : args \in { << a, c >> } })

RECURSIVE ISqrtFrom(_, _)
ISqrtFrom(n, k) == IF k * k >= n THEN k ELSE ISqrtFrom(n, k + 1)

\* sqrt of a rational that is a perfect square (numerator and denominator)
RSqrt_of(a) ==
    LET p == ISqrtFrom(a[1], 0)
        q == ISqrtFrom(a[2], 0)
    IN  IF p * p = a[1] /\ q * q = a[2] THEN << p, q >>
        ELSE CHOOSE r \in {} : TRUE
RSqrt(a) == Value({ RSqrt_of(arg) : arg \in { a } })

\* ------------------------------------------------------------------------
\* numpy vectors and matrices (two components)
\* ------------------------------------------------------------------------
zeros == << Zero, Zero >>

VAdd_of(u, v) == << RAdd(u[1], v[1]), RAdd(u[2], v[2]) >>
VAdd(u, v) == Value({ VAdd_of(args[1], args[2]) : args \in { << u, v >> } })

VSub_of(u, v) == << RSub(u[1], v[1]), RSub(u[2], v[2]) >>
VSub(u, v) == Value({ VSub_of(args[1], args[2]) : args \in { << u, v >> } })

VScale_of(c, v) == << RMul(c, v[1]), RMul(c, v[2]) >>
VScale(c, v) == Value({ VScale_of(args[1], args[2]) : args \in { << c, v >> } })

Dot_of(u, v) == RAdd(RMul(u[1], v[1]), RMul(u[2], v[2]))
Dot(u, v) == Value({ Dot_of(args[1], args[2]) : args \in { << u, v >> } })

MatVec_of(M, v) == << Dot(M[1], v), Dot(M[2], v) >>
MatVec(M, v) == Value({ MatVec_of(args[1], args[2]) : args \in { << M, v >> } })

Transpose_of(M) == << << M[1][1], M[2][1] >>, << M[1][2], M[2][2] >> >>
Transpose(M) == Value({ Transpose_of(arg) : arg \in { M } })

MatMul(M, K) ==
    LET Kt == Transpose(K)
    IN  << << Dot(M[1], Kt[1]), Dot(M[1], Kt[2]) >>,
           << Dot(M[2], Kt[1]), Dot(M[2], Kt[2]) >> >>

\* numpy.linalg.norm(x, ord=1) and norm(x, ord=2) of a vector
Norm1_of(v) == RAdd(RAbs(v[1]), RAbs(v[2]))
Norm1(v) == Value({ Norm1_of(arg) : arg \in { v } })

Norm2_of(v) == RSqrt(Dot(v, v))
Norm2(v) == Value({ Norm2_of(arg) : arg \in { v } })

\* power(norm(x, ord=2), 2): the square of the square root, the sum of squares
Norm2Sq_of(v) == Dot(v, v)
Norm2Sq(v) == Value({ Norm2Sq_of(arg) : arg \in { v } })

\* numpy.linalg.norm(M, ord=2) of a matrix: its largest singular value, the
\* square root of the largest eigenvalue of M^T M
MatNorm2(M) ==
    LET G == MatMul(Transpose(M), M)
        tr == RAdd(G[1][1], G[2][2])
        det == RSub(RMul(G[1][1], G[2][2]), RMul(G[1][2], G[2][1]))
        disc == RSub(RMul(tr, tr), RMul(<< 4, 1 >>, det))
    IN  RSqrt(RDiv(RAdd(tr, RSqrt(disc)), Two))

\* ------------------------------------------------------------------------
\* Lasso: the problem contract
\* ------------------------------------------------------------------------
\* norm(x, ord=1) <= alpha
check_feasible(al, v) == RLe(Norm1(v), al)

\* (Ax - b)^T (Ax - b)
function_of(M, bb, v) ==
    LET result == VSub(MatVec(M, v), bb)
    IN  Dot(result, result)
function(M, bb, v) ==
    Value({ function_of(args[1], args[2], args[3]) : args \in { << M, bb, v >> } })

\* 2 A^T (Ax - b)
gradient_of(M, bb, v) ==
    VScale(Two, MatVec(Transpose(M), VSub(MatVec(M, v), bb)))
gradient(M, bb, v) ==
    Value({ gradient_of(args[1], args[2], args[3]) : args \in { << M, bb, v >> } })

\* 2 * norm(A^T A, ord=2)
get_gradient_lipschitz_constant(M) ==
    RMul(Two, MatNorm2(MatMul(Transpose(M), M)))

\* numpy.argmax(abs(g)): the first index of the largest absolute value
argmax_abs_of(g) == IF RGe(RAbs(g[1]), RAbs(g[2])) THEN 1 ELSE 2
argmax_abs(g) == Value({ argmax_abs_of(arg) : arg \in { g } })

\* result[index] = +alpha * sign(g[index]): the maximiser of the linear form
linear_oracle_ascent(al, g) ==
    LET index == argmax_abs(g)
        value == RMul(al, << RSign(g[index]), 1 >>)
    IN  << IF index = 1 THEN value ELSE Zero, IF index = 2 THEN value ELSE Zero >>

\* result[index] = -alpha * sign(g[index]), zero elsewhere
linear_oracle_of(al, g) ==
    LET index == argmax_abs(g)
        value == RMul(RNeg(al), << RSign(g[index]), 1 >>)
    IN  << IF index = 1 THEN value ELSE Zero, IF index = 2 THEN value ELSE Zero >>
linear_oracle(al, g) ==
    Value({ linear_oracle_of(args[1], args[2]) : args \in { << al, g >> } })

\* jaxopt projection_simplex(u, s): sort descending, count the positive
\* conditions s/k + (u_k - cumsum_k/k), shift and clip at zero
projection_simplex_of(u, s) ==
    LET hi == RMax(u[1], u[2])
        lo == RMin(u[1], u[2])
        cumsum == << hi, RAdd(hi, lo) >>
        cond2 == RGt(RAdd(RDiv(s, Two), RSub(lo, RDiv(cumsum[2], Two))), Zero)
        idx == IF cond2 THEN 2 ELSE 1
        shift == RSub(RDiv(s, << idx, 1 >>), RDiv(cumsum[idx], << idx, 1 >>))
    IN  << RMax(Zero, RAdd(u[1], shift)), RMax(Zero, RAdd(u[2], shift)) >>
projection_simplex(u, s) ==
    Value({ projection_simplex_of(args[1], args[2]) : args \in { << u, s >> } })

\* jaxopt projection_l1_ball(x, max_value)
projection_of(al, v) ==
    IF RLe(Norm1(v), al) THEN v
    ELSE LET p == projection_simplex(<< RAbs(v[1]), RAbs(v[2]) >>, al)
         IN  << RMul(<< RSign(v[1]), 1 >>, p[1]), RMul(<< RSign(v[2]), 1 >>, p[2]) >>
projection(al, v) == Value({ projection_of(args[1], args[2]) : args \in { << al, v >> } })

\* q_t^T (Ax - b) / ||q_t||^2: the residual with the wrong sign
line_search_flipped(M, bb, s, v) ==
    LET q_t == MatVec(M, VSub(s, v))
    IN  RDiv(Dot(q_t, VSub(MatVec(M, v), bb)), Norm2Sq(q_t))

\* q_t^T (b - Ax) / ||q_t||^2  with  q_t = A (s - x)
line_search_of(M, bb, s, v) ==
    LET q_t == MatVec(M, VSub(s, v))
    IN  RDiv(Dot(q_t, VSub(bb, MatVec(M, v))), Norm2Sq(q_t))
line_search(M, bb, s, v) ==
    Value({ line_search_of(args[1], args[2], args[3], args[4]) : args \in { << M, bb, s, v >> } })

\* ------------------------------------------------------------------------
\* Problem instances
\* ------------------------------------------------------------------------
\* The sampled data (a_matrix, minimum) and the tolerance range over small
\* sets: matrices whose norms are rational (identity, a scaled axis, two
\* singular ones, the zero sample), points inside, on the boundary of and
\* outside the L1 ball, and tolerances that some recorded gaps equal.  With
\* these every number of a run of up to MaxIter + 2 passes stays within
\* TLC's 32-bit integers (the denominators of the backtracking iterates
\* grow with the cube of the previous ones).
\* alpha, the radius of the L1 ball (main.py passes one value per experiment)
Alphas == { One }

\* a_matrix = standard_normal(size=(n, n)): sampled matrices, the zero sample
\* included
Matrices ==
    { << << One, Zero >>, << Zero, One >> >>,
      << << Two, Zero >>, << Zero, One >> >>,
      << << One, Zero >>, << Zero, Zero >> >>,
      << << << 3, 5 >>, << 4, 5 >> >>, << Zero, Zero >> >>,
      << << Zero, Zero >>, << Zero, Zero >> >> }

\* candidates of __get_point(); __get_random_feasible_point keeps a feasible one
Points ==
    { << Zero, Zero >>,
      << One, Zero >>,
      << << -1, 2 >>, Zero >>,
      << << 1, 2 >>, << 1, 4 >> >>,
      << << 1, 2 >>, << -1, 4 >> >>,
      << << 1, 4 >>, << 1, 4 >> >>,
      << << 3, 4 >>, << 1, 4 >> >>,
      << One, One >> }

Tolerances ==
    { << 1, 2 >>,
      << 1, 1 >> }

\* the caller-supplied parameter of frank_wolfe_open_loop (main.py: 1, 2, 3, 4)
Parameters == { 1, 2 }

PGD == "projected_gradient_descent"
OpenLoop == "frank_wolfe_open_loop"
ShortSteps == "frank_wolfe_short_steps"
LineSearch == "frank_wolfe_line_search"
Backtracking == "frank_wolfe_backtracking"

Algorithms == { PGD, OpenLoop, ShortSteps, LineSearch, Backtracking }
FrankWolfe == Algorithms \ { PGD }

\* __StoppingCondition
iterations == "maximum iterations reached"
gap_reached == "gap is smaller than tolerance"
error_reached == "error is smaller than tolerance"

\* Python's None, for a rational local and for a list field
None == << 0, 0 >>
NoList == 0

tau == << 2, 1 >>
eta == << 9, 10 >>

\* ------------------------------------------------------------------------
\* State
\* ------------------------------------------------------------------------
VARIABLES
    alpha, A, b, minimum,           \* Lasso: problem data
    tolerance, max_iterations,      \* GeneralProblem: run limits
    x_0,                            \* content of the array self._x_0
    gradient_lipschitz_constant,
    heap,                           \* the Python list objects, by identity
    errors, times,                  \* self._errors, self._times: list identities
    clock,                          \* calls of time() so far
    pc,                             \* "idle", "loop", "inner", "exit"
    algorithm, parameter,           \* the running algorithm and its argument
    start_time,                     \* wrapper: start_time
    iteration, x, x_obj,            \* locals; x_obj names the array x is bound to
    stopping_condition,
    step_size, cap_l, cap_m,
    doublings,                      \* cap_m *= tau steps of the current __step_size call
    results,                        \* what each finished call returned to its caller
    reported                        \* the stopping conditions printed so far

problem == << alpha, A, b, minimum, tolerance, max_iterations, gradient_lipschitz_constant >>
lists == << heap, errors, times >>
locals == << algorithm, parameter, start_time, iteration, x, x_obj, stopping_condition,
             step_size, cap_l, cap_m, doublings >>
vars == << problem, x_0, lists, clock, pc, locals, results, reported >>

\* ------------------------------------------------------------------------
\* Construction: Lasso.__init__ and GeneralProblem.__init__
\* ------------------------------------------------------------------------
\* _get_problem_data: (minimum, a_matrix, a_matrix @ minimum)
get_problem_data(al, M, point) ==
    [minimum |-> point, A |-> M, b |-> MatVec(M, point)]

\* The instance after Lasso(number_of_features=2, alpha, tolerance,
\* max_iterations) returned; x_0 is left out, so self._x_0 = zeros(2).
\* GeneralProblem.__init__ asserts the feasibility of x_0 and stores the
\* Lipschitz constant as computed.
Init ==
    /\ alpha \in Alphas
    /\ \E M \in Matrices, point \in Points :
          /\ check_feasible(alpha, point)
          /\ minimum = get_problem_data(alpha, M, point).minimum
          /\ A = get_problem_data(alpha, M, point).A
          /\ b = get_problem_data(alpha, M, point).b
    /\ tolerance \in Tolerances
    /\ max_iterations \in 0..MaxIter
    /\ x_0 = zeros
    /\ check_feasible(alpha, x_0)
    /\ gradient_lipschitz_constant = get_gradient_lipschitz_constant(A)
    /\ heap = << >>
    /\ errors = NoList
    /\ times = NoList
    /\ clock = 0
    /\ pc = "idle"
    /\ algorithm = "none"
    /\ parameter = 0
    /\ start_time = 0
    /\ iteration = 0
    /\ x = zeros
    /\ x_obj = "none"
    /\ stopping_condition = "none"
    /\ step_size = None
    /\ cap_l = None
    /\ cap_m = None
    /\ doublings = 0
    /\ results = << >>
    /\ reported = << >>

\* ------------------------------------------------------------------------
\* The wrapper and the prologue of every algorithm
\* ------------------------------------------------------------------------
\* the lists emptied in place (instance._errors.clear()) instead of replaced
cleared_lists(h, e, t) ==
    IF e = NoList
    THEN [heap |-> h \o << << >>, << >> >>, errors |-> Len(h) + 1, times |-> Len(h) + 2]
    ELSE [heap |-> [h EXCEPT ![e] = << >>, ![t] = << >>], errors |-> e, times |-> t]

\* instance._errors = list(); instance._times = list(): two new list objects
fresh_lists(h, e, t) ==
    [heap |-> h \o << << >>, << >> >>, errors |-> Len(h) + 1, times |-> Len(h) + 2]

\* x = self._x_0 without the copy: x is bound to the array of self._x_0
copy_alias(obj) == obj

\* self._x_0.copy(): a new array; the result names the array x is bound to
copy(obj) == "fresh"

\* while iteration < self._max_iterations
loop_condition_strict(it, maxit) == it < maxit

\* while iteration <= self._max_iterations
loop_condition(it, maxit) == it <= maxit

\* if gap <= self._tolerance
below_tolerance_or_equal(value, tol) == RLe(value, tol)

\* if gap < self._tolerance / if error < self._tolerance
below_tolerance(value, tol) == RLt(value, tol)

\* the break path without its self._times.append(time())
times_on_break_skipped(ts, now) == ts

\* the break path: self._times.append(time())
times_on_break(ts, now) == Append(ts, now)

Call(alg, p) ==
    /\ pc = "idle"
    /\ Len(results) < MaxRuns
    /\ LET r == fresh_lists(heap, errors, times)
       IN  /\ heap' = r.heap
           /\ errors' = r.errors
           /\ times' = r.times
    /\ clock' = clock + 1
    /\ start_time' = clock + 1
    /\ algorithm' = alg
    /\ parameter' = p
    /\ iteration' = 0
    /\ x' = x_0
    /\ x_obj' = copy("x_0")
    /\ stopping_condition' = iterations
    /\ step_size' = IF alg = PGD THEN RDiv(One, gradient_lipschitz_constant) ELSE None
    /\ cap_l' = None
    /\ cap_m' = None
    /\ doublings' = 0
    /\ pc' = "loop"
    /\ UNCHANGED << problem, x_0, results, reported >>

\* ------------------------------------------------------------------------
\* One pass of the while loop
\* ------------------------------------------------------------------------
grad == gradient(A, b, x)
s == linear_oracle(alpha, grad)
d == VSub(s, x)

\* gradient.transpose() @ (x-s)   (open loop, line search)
gap_xs == Dot(grad, VSub(x, s))
\* -gradient.transpose() @ d      (short steps, backtracking)
gap_d == RNeg(Dot(grad, d))

\* self._errors.append(metric)
with_error(h, metric) == [h EXCEPT ![errors] = Append(@, metric)]
\* self._times.append(time()) at the end of an update
with_time(h, now) == [h EXCEPT ![times] = Append(@, now)]
\* self._times.append(time()) before the break
with_break_time(h, now) == [h EXCEPT ![times] = times_on_break(@, now)]

\* metric < tolerance: the time is appended, the stopping condition set, break
Break(metric, tag) ==
    /\ heap' = with_break_time(with_error(heap, metric), clock + 1)
    /\ clock' = clock + 1
    /\ stopping_condition' = tag
    /\ pc' = "exit"
    /\ UNCHANGED << iteration, x, x_obj, x_0, step_size, cap_l, cap_m, doublings >>

\* x = <new array>: x is bound to a new object
Rebind(value) ==
    /\ x' = value
    /\ x_obj' = "fresh"
    /\ UNCHANGED x_0

\* x += <array>: the object x is bound to is changed in place
InPlace(value) ==
    /\ x' = value
    /\ x_0' = IF x_obj = "x_0" THEN value ELSE x_0
    /\ UNCHANGED x_obj

\* iteration += 1; <update of x>; self._times.append(time())
Advance(metric, step) ==
    /\ heap' = with_time(with_error(heap, metric), clock + 1)
    /\ clock' = clock + 1
    /\ iteration' = iteration + 1
    /\ step_size' = step
    /\ pc' = "loop"
    /\ UNCHANGED << stopping_condition, cap_l, cap_m, doublings >>

ProjectedGradientDescentPass ==
    /\ pc = "loop"
    /\ algorithm = PGD
    /\ loop_condition(iteration, max_iterations)
    /\ LET error == function(A, b, x)
       IN  IF below_tolerance(error, tolerance)
           THEN Break(error, error_reached)
           ELSE /\ Advance(error, step_size)
                /\ Rebind(projection(alpha, VSub(x, VScale(step_size, grad))))
    /\ UNCHANGED << problem, errors, times, algorithm, parameter, start_time,
                    results, reported >>

\* parameter/(iteration_index + parameter)
open_loop_step_size(iteration_index, p) == Rat(p, iteration_index + p)

FrankWolfeOpenLoopPass ==
    /\ pc = "loop"
    /\ algorithm = OpenLoop
    /\ loop_condition(iteration, max_iterations)
    /\ IF below_tolerance(gap_xs, tolerance)
       THEN Break(gap_xs, gap_reached)
       ELSE LET step == open_loop_step_size(iteration, parameter)
            IN  /\ Advance(gap_xs, step)
                /\ Rebind(VAdd(VScale(RSub(One, step), x), VScale(step, s)))
    /\ UNCHANGED << problem, errors, times, algorithm, parameter, start_time,
                    results, reported >>

\* min([1, g_t/(lipschitz * power(norm(d_t, 2), 2))])
short_step_size(lipschitz, g_t, d_t) ==
    RMin(One, RDiv(g_t, RMul(lipschitz, Norm2Sq(d_t))))

FrankWolfeShortStepsPass ==
    /\ pc = "loop"
    /\ algorithm = ShortSteps
    /\ loop_condition(iteration, max_iterations)
    /\ IF below_tolerance(gap_d, tolerance)
       THEN Break(gap_d, gap_reached)
       ELSE LET step == short_step_size(gradient_lipschitz_constant, gap_d, d)
            IN  /\ Advance(gap_d, step)
                /\ InPlace(VAdd(x, VScale(step, d)))
    /\ UNCHANGED << problem, errors, times, algorithm, parameter, start_time,
                    results, reported >>

FrankWolfeLineSearchPass ==
    /\ pc = "loop"
    /\ algorithm = LineSearch
    /\ loop_condition(iteration, max_iterations)
    /\ IF below_tolerance(gap_xs, tolerance)
       THEN Break(gap_xs, gap_reached)
       ELSE LET step == line_search(A, b, s, x)
            IN  /\ Advance(gap_xs, step)
                /\ Rebind(VAdd(VScale(RSub(One, step), x), VScale(step, s)))
    /\ UNCHANGED << problem, errors, times, algorithm, parameter, start_time,
                    results, reported >>

\* ------------------------------------------------------------------------
\* frank_wolfe_backtracking
\* ------------------------------------------------------------------------
\* norm(gradient - gradient(x + tolerance*d), 2) / (tolerance * norm(d, 2))
initial_estimate ==
    RDiv(Norm2(VSub(grad, gradient(A, b, VAdd(x, VScale(tolerance, d))))),
         RMul(tolerance, Norm2(d)))

\* cap_m = eta * eta * cap_l_t: the dampening applied twice
dampened_twice(cap_l_t) == RMul(eta, RMul(eta, cap_l_t))

\* cap_m = eta * cap_l_t
dampened(cap_l_t) == RMul(eta, cap_l_t)

\* cap_m /= tau: the estimate shrunk instead of grown
increased_halved(m) == RDiv(m, tau)

\* cap_m *= tau
increased(m) == RMul(m, tau)

\* min([1, gradient_t^T (x_t - s_t) / (cap_m * power(norm(x_t - s_t, 2), 2))])
candidate_of(m, gradient_t, x_t, s_t) ==
    RMin(One, RDiv(Dot(gradient_t, VSub(x_t, s_t)), RMul(m, Norm2Sq(VSub(x_t, s_t)))))
candidate(m, gradient_t, x_t, s_t) ==
    Value({ candidate_of(args[1], args[2], args[3], args[4]) : args \in { << m, gradient_t, x_t, s_t >> } })

\* self._gradient(x_t + gamma*(s-x)).transpose() @ (s-x) >= 0
accepted_flipped(gradient_at_candidate, x_minus_s) ==
    RGe(Dot(gradient_at_candidate, VSub(zeros, x_minus_s)), Zero)

\* self._gradient(x_t + gamma*(s-x)).transpose() @ (x-s) >= 0
accepted(gradient_at_candidate, x_minus_s) ==
    RGe(Dot(gradient_at_candidate, x_minus_s), Zero)

gamma == candidate(cap_m, grad, x, s)
gradient_at_gamma == gradient(A, b, VAdd(x, VScale(gamma, VSub(s, x))))

\* the outer pass up to the call of __step_size
FrankWolfeBacktrackingPass ==
    /\ pc = "loop"
    /\ algorithm = Backtracking
    /\ loop_condition(iteration, max_iterations)
    /\ IF below_tolerance(gap_d, tolerance)
       THEN Break(gap_d, gap_reached)
       ELSE LET l == IF iteration = 0 THEN initial_estimate ELSE cap_l
            IN  /\ heap' = with_error(heap, gap_d)
                /\ cap_l' = l
                /\ cap_m' = dampened(l)
                /\ doublings' = 0
                /\ pc' = "inner"
                /\ UNCHANGED << clock, iteration, x, x_obj, x_0, step_size,
                                stopping_condition >>
    /\ UNCHANGED << problem, errors, times, algorithm, parameter, start_time,
                    results, reported >>

\* __step_size: the candidate is accepted; the rest of the outer pass follows
StepSizeAccept ==
    /\ pc = "inner"
    /\ accepted(gradient_at_gamma, VSub(x, s))
    /\ step_size' = gamma
    /\ cap_l' = cap_m
    /\ iteration' = iteration + 1
    /\ InPlace(VAdd(x, VScale(gamma, d)))
    /\ heap' = with_time(heap, clock + 1)
    /\ clock' = clock + 1
    /\ pc' = "loop"
    /\ UNCHANGED << problem, errors, times, algorithm, parameter, start_time,
                    stopping_condition, cap_m, doublings, results, reported >>

\* __step_size: the candidate is refused
StepSizeRetry ==
    /\ pc = "inner"
    /\ ~accepted(gradient_at_gamma, VSub(x, s))
    /\ doublings < MaxDoublings
    /\ cap_m' = increased(cap_m)
    /\ doublings' = doublings + 1
    /\ UNCHANGED << problem, x_0, lists, clock, pc, algorithm, parameter, start_time,
                    iteration, x, x_obj, stopping_condition, step_size, cap_l,
                    results, reported >>

\* ------------------------------------------------------------------------
\* Leaving the loop and returning
\* ------------------------------------------------------------------------
LoopExhausted ==
    /\ pc = "loop"
    /\ ~loop_condition(iteration, max_iterations)
    /\ pc' = "exit"
    /\ UNCHANGED << problem, x_0, lists, clock, locals, results, reported >>

\* [item - start_time for item in instance._times]
rebased(ts, start) == [k \in 1..Len(ts) |-> ts[k] - start]

\* __show_results(other=stopping_condition.value), then the wrapper's
\* return elapsed_time, instance._errors, [rebased times]
Return ==
    /\ pc = "exit"
    /\ reported' = Append(reported, stopping_condition)
    /\ clock' = clock + 1
    /\ heap' = Append(heap, rebased(heap[times], start_time))
    /\ results' = Append(results,
                         [algorithm |-> algorithm,
                          parameter |-> parameter,
                          elapsed_time |-> clock + 1 - start_time,
                          errors |-> errors,
                          times |-> Len(heap) + 1])
    /\ pc' = "idle"
    /\ algorithm' = "none"
    /\ parameter' = 0
    /\ start_time' = 0
    /\ iteration' = 0
    /\ x' = zeros
    /\ x_obj' = "none"
    /\ stopping_condition' = "none"
    /\ step_size' = None
    /\ cap_l' = None
    /\ cap_m' = None
    /\ doublings' = 0
    /\ UNCHANGED << problem, x_0, errors, times >>

Next ==
    \/ \E alg \in Algorithms \ { OpenLoop } : Call(alg, 0)
    \/ \E p \in Parameters : Call(OpenLoop, p)
    \/ ProjectedGradientDescentPass
    \/ FrankWolfeOpenLoopPass
    \/ FrankWolfeShortStepsPass
    \/ FrankWolfeLineSearchPass
    \/ FrankWolfeBacktrackingPass
    \/ StepSizeAccept
    \/ StepSizeRetry
    \/ LoopExhausted
    \/ Return

Spec == Init /\ [][Next]_vars

\* func(instance, *args) is a synchronous call on one thread: once an
\* algorithm is running, the interpreter takes its next step whenever there
\* is one (weak fairness of the steps of a running call).  Whether another
\* call follows is the caller's choice, so Call is under no fairness.
RunStep ==
    \/ ProjectedGradientDescentPass
    \/ FrankWolfeOpenLoopPass
    \/ FrankWolfeShortStepsPass
    \/ FrankWolfeLineSearchPass
    \/ FrankWolfeBacktrackingPass
    \/ StepSizeAccept
    \/ StepSizeRetry
    \/ LoopExhausted
    \/ Return

FairSpec == Init /\ [][Next]_vars /\ WF_vars(RunStep)

\* ------------------------------------------------------------------------
\* Properties
\* ------------------------------------------------------------------------
running == pc \in { "loop", "inner", "exit" }

\* the content of self._errors and self._times while an algorithm runs
error_history == heap[errors]
time_history == heap[times]

\* C1 (as stated): for the Frank-Wolfe variants, at the exit of the loop the
\* time history has as many entries as update steps were completed, and the
\* error history has one entry more than the time history after a stop by
\* tolerance and as many after max_iterations is exhausted.
C1_TimesCountUpdates ==
    (pc = "exit" /\ algorithm \in FrankWolfe) =>
        /\ Len(time_history) = iteration
        /\ stopping_condition = gap_reached =>
               Len(error_history) = Len(time_history) + 1
        /\ stopping_condition = iterations =>
               Len(error_history) = Len(time_history)

\* C1 (amended): for the Frank-Wolfe variants the time history always has
\* as many entries as the error history, at the exit of the loop and in
\* what is returned; after a stop by tolerance both have one entry more
\* than update steps were completed, after exhaustion both have as many.
C1_TimesMatchErrors ==
    /\ (pc = "exit" /\ algorithm \in FrankWolfe) =>
          /\ Len(time_history) = Len(error_history)
          /\ stopping_condition = gap_reached => Len(time_history) = iteration + 1
          /\ stopping_condition = iterations => Len(time_history) = iteration
    /\ \A k \in DOMAIN results :
          results[k].algorithm \in FrankWolfe =>
              Len(heap[results[k].times]) = Len(heap[results[k].errors])

\* a Frank-Wolfe run that stopped by tolerance after at least one update
C1_Witness ==
    /\ pc = "exit"
    /\ algorithm \in FrankWolfe
    /\ stopping_condition = gap_reached
    /\ iteration >= 1

\* C2: a run in which no recorded metric is below tolerance leaves the loop
\* with 'maximum iterations reached' and max_iterations + 1 error entries;
\* no run ever holds more than max_iterations + 1 error entries.
C2_ExhaustionCount ==
    running =>
        /\ Len(error_history) <= max_iterations + 1
        /\ (pc = "exit" /\ \A k \in DOMAIN error_history :
                                ~RLt(error_history[k], tolerance)) =>
               /\ stopping_condition = iterations
               /\ Len(error_history) = max_iterations + 1

\* a run that exhausted max_iterations >= 1 without a metric below tolerance
C2_Witness ==
    /\ pc = "exit"
    /\ max_iterations >= 1
    /\ stopping_condition = iterations
    /\ \A k \in DOMAIN error_history : ~RLt(error_history[k], tolerance)

\* C3: one stopping condition is reported per run; it is the tolerance tag
\* of the algorithm (error for projected gradient descent, gap for the
\* Frank-Wolfe variants) exactly if the last error entry is below
\* tolerance, and 'maximum iterations reached' otherwise; every entry
\* before the last is at least tolerance.
C3_StoppingCondition ==
    /\ Len(reported) = Len(results)
    /\ pc = "exit" =>
          LET n == Len(error_history)
          IN  /\ n >= 1
              /\ RLt(error_history[n], tolerance) =>
                     stopping_condition =
                         IF algorithm = PGD THEN error_reached ELSE gap_reached
              /\ ~RLt(error_history[n], tolerance) =>
                     stopping_condition = iterations
              /\ \A k \in 1..(n - 1) : RGe(error_history[k], tolerance)

\* projected gradient descent stopped by tolerance after an update
C3_Witness ==
    /\ pc = "exit"
    /\ algorithm = PGD
    /\ stopping_condition = error_reached
    /\ Len(error_history) >= 2

\* C4: the wrapper starts every invocation with empty histories, so the
\* histories at the exit of the loop hold only the entries of that
\* invocation (one error entry per pass of the loop), and no step changes
\* the histories an earlier invocation returned.
C4_HistoriesPerInvocation ==
    [][ /\ (pc = "idle" /\ pc' = "loop") =>
              /\ heap'[errors'] = << >>
              /\ heap'[times'] = << >>
        /\ pc' = "exit" =>
              /\ Len(heap'[errors']) =
                     iteration' + (IF stopping_condition' = iterations THEN 0 ELSE 1)
              /\ Len(heap'[times']) = Len(heap'[errors'])
        /\ \A k \in DOMAIN results :
              /\ heap'[results[k].errors] = heap[results[k].errors]
              /\ heap'[results[k].times] = heap[results[k].times]
      ]_vars

\* two invocations of different algorithms returned different histories
C4_Witness ==
    /\ Len(results) = 2
    /\ results[1].algorithm # results[2].algorithm
    /\ Len(heap[results[1].errors]) >= 2
    /\ Len(heap[results[2].errors]) >= 2
    /\ heap[results[1].errors] # heap[results[2].errors]

\* C5: x is bound to a copy of x_0, never to x_0 itself, so x_0 stays the
\* starting point; two invocations of the same algorithm with the same
\* parameter return the same error history, as many time entries and
\* report the same stopping condition.
C5_RerunIdentical ==
    /\ x_0 = zeros
    /\ running => x_obj # "x_0"
    /\ \A j, k \in DOMAIN results :
          (/\ results[j].algorithm = results[k].algorithm
           /\ results[j].parameter = results[k].parameter) =>
              /\ heap[results[j].errors] = heap[results[k].errors]
              /\ Len(heap[results[j].times]) = Len(heap[results[k].times])
              /\ reported[j] = reported[k]

\* an algorithm that updates x in place ran twice, with updates
C5_Witness ==
    /\ Len(results) = 2
    /\ results[1].algorithm = results[2].algorithm
    /\ results[1].algorithm \in { ShortSteps, Backtracking }
    /\ Len(heap[results[2].errors]) >= 2

\* C6: every entry of the error history is non-negative, and every
\* iterate lies in the L1 ball of radius alpha.
C6_NonNegativeHistory ==
    running =>
        /\ \A k \in DOMAIN error_history : RGe(error_history[k], Zero)
        /\ check_feasible(alpha, x)

\* a Frank-Wolfe run recorded a positive gap at an iterate other than x_0
C6_Witness ==
    /\ running
    /\ algorithm \in FrankWolfe
    /\ Len(error_history) >= 2
    /\ RGt(error_history[2], Zero)
    /\ x # zeros

\* C7: projected gradient descent never runs on an instance whose
\* gradient-Lipschitz constant is not strictly positive (the construction
\* of such an instance having failed), so 1/L is never computed with L <= 0.
C7_LipschitzPositive ==
    algorithm = PGD => RGt(gradient_lipschitz_constant, Zero)

\* C8: where frank_wolfe_line_search calls line_search(s, x), the
\* denominator ||A(s-x)||^2 is not zero, the step size lies in [0, 1] and
\* the updated iterate is feasible; so is every step size it has used.
C8_LineSearchStep ==
    algorithm = LineSearch =>
        /\ (pc = "loop" /\ loop_condition(iteration, max_iterations)
               /\ ~RLt(gap_xs, tolerance)) =>
              LET q_t == MatVec(A, VSub(s, x))
                  step == RDiv(Dot(q_t, VSub(b, MatVec(A, x))), Dot(q_t, q_t))
              IN  /\ Dot(q_t, q_t) # Zero
                  /\ RGe(step, Zero)
                  /\ RLe(step, One)
                  /\ check_feasible(alpha,
                         VAdd(VScale(RSub(One, step), x), VScale(step, s)))
        /\ (running /\ iteration >= 1) =>
              /\ RGe(step_size, Zero)
              /\ RLe(step_size, One)
              /\ check_feasible(alpha, x)

\* line search took a step strictly inside the segment
C8_Witness ==
    /\ algorithm = LineSearch
    /\ running
    /\ iteration >= 1
    /\ RGt(step_size, Zero)
    /\ RLt(step_size, One)

\* the candidate of the inner search and the directional derivative at it
C9_gamma == RMin(One, RDiv(gap_d, RMul(cap_m, Dot(d, d))))
C9_derivative == Dot(gradient(A, b, VAdd(x, VScale(C9_gamma, d))), d)

C9_Search(accept) ==
    /\ (pc = "loop" /\ pc' = "inner") => cap_m' = RMul(eta, cap_l')
    /\ (pc = "inner" /\ pc' = "loop") =>
          /\ accept
          /\ step_size' = C9_gamma
          /\ cap_l' = cap_m
    /\ (pc = "inner" /\ pc' = "inner" /\ cap_m' # cap_m) =>
          /\ ~accept
          /\ cap_m' = RMul(Two, cap_m)

\* C9 (as stated): the inner search starts from M = 0.9 * L_prev and accepts
\* (gamma, M), gamma = min(1, gap/(M ||d||^2)), exactly if
\* <grad f(x + gamma d), s - x> >= 0; otherwise it doubles M and retries.
C9_AcceptsNonNegativeDerivative ==
    [][ C9_Search(RGe(C9_derivative, Zero)) ]_vars

\* C9 (amended): the inner search starts from M = 0.9 * L_prev and accepts
\* (gamma, M), gamma = min(1, gap/(M ||d||^2)), exactly if
\* <grad f(x + gamma d), x - s> >= 0, that is <grad f(x + gamma d), s - x> <= 0;
\* otherwise it doubles M and retries.
C9_AcceptsNonPositiveDerivative ==
    [][ C9_Search(RLe(C9_derivative, Zero)) ]_vars

\* a candidate was accepted after a refusal
C9_Witness ==
    /\ algorithm = Backtracking
    /\ pc = "loop"
    /\ iteration >= 1
    /\ doublings >= 1

RECURSIVE Pow2(_)
Pow2(n) == IF n = 0 THEN 1 ELSE 2 * Pow2(n - 1)

C10_Estimate(growth) ==
    /\ (pc = "loop" /\ pc' = "inner") =>
          cap_l' = IF iteration = 0 THEN initial_estimate ELSE cap_l
    /\ (pc = "inner" /\ pc' = "loop") =>
          /\ cap_l' = cap_m
          /\ iteration >= 1 => growth

\* C10 (as stated): the estimate is initialised from the finite-difference
\* estimate at the first iteration only, the accepted M becomes L_prev of
\* the next iteration, and the M accepted at an outer iteration is never
\* smaller than the M accepted at the previous one.
C10_EstimateNeverShrinks ==
    [][ C10_Estimate(RGe(cap_l', cap_l)) ]_vars

\* C10 (amended): ... and the M accepted at an outer iteration is
\* eta * 2^j times the M accepted at the previous one, j the number of
\* doublings of that iteration: never smaller than 0.9 times the previous
\* one, but smaller than it when the first candidate is accepted.
C10_EstimateDampenedEachIteration ==
    [][ C10_Estimate(/\ cap_l' = RMul(<< Pow2(doublings), 1 >>, RMul(eta, cap_l))
                     /\ RGe(cap_l', RMul(eta, cap_l))) ]_vars

\* at an outer iteration after the first, the first candidate was accepted
C10_Witness ==
    /\ algorithm = Backtracking
    /\ pc = "loop"
    /\ iteration >= 2
    /\ doublings = 0

\* C11: for the Lasso problem with tolerance > 0, every inner search of
\* frank_wolfe_backtracking that is entered ends with an accepted candidate
\* after finitely many doublings of M (here: within MaxDoublings), and the
\* run goes on to the exit of its loop with one of its two stopping
\* conditions.
C11_InnerSearchTerminates ==
    /\ (pc = "inner") ~> (pc = "loop")
    /\ (algorithm = Backtracking /\ pc \in { "loop", "inner" }) ~>
          (/\ algorithm = Backtracking
           /\ pc = "exit"
           /\ stopping_condition \in { iterations, gap_reached })

\* an inner search, entered with a gap of at least tolerance, a direction
\* other than zero and a positive estimate, that has doubled M
C11_Witness ==
    /\ pc = "inner"
    /\ doublings >= 1
    /\ RGe(gap_d, tolerance)
    /\ d # zeros
    /\ RGt(cap_l, Zero)

====
